---------------------------- MODULE Spec2Model ----------------------------
(***************************************************************************)
(* AstroDynamicsEngine: the Barnes-Hut quadtree and force calculator of    *)
(* src/BarnesHut.h, the direct pairwise force computation and the RK4      *)
(* integrator of src/main.cpp.                                             *)
(*                                                                         *)
(* Numbers.  Tree geometry is modelled in exact arithmetic: a coordinate   *)
(* c of the program is the integer c * Scale, and Scale is chosen so that  *)
(* the bounding-box centre (x 0.5), the root half size (x 0.6) and         *)
(* MaxDepth halvings stay integers.  A float division whose result need    *)
(* not be representable is modelled as a division rounded to the nearest   *)
(* representable value (RoundDiv); a division by zero gives NaN, which     *)
(* stands for every non-finite float and is absorbing.                     *)
(*                                                                         *)
(* A force is kept as the sequence of the terms that `force +=` added, in  *)
(* the order they were added.  A term <<r, mm>> stands for the vector      *)
(*     r * (G * mm / r3),  r2 = r.x^2 + r.y^2 + softening^2,               *)
(*                         r3 = r2 * sqrt(r2)                              *)
(* which is the one formula of BarnesHut.h:140-142, 150-152 and of         *)
(* main.cpp:248-252.                                                       *)
(***************************************************************************)
EXTENDS Integers, Sequences, FiniteSets, Bags, TLC

VARIABLES
    particles,   \* the particle vector handed to the operation under way
    entry,       \* which operation runs: "bh", "direct", "build" or "rk"
    pc,          \* the position of that operation
    theta,       \* BarnesHutForceCalculator::theta, a rational <<num, den>>
    tree,        \* the quadtree: path of the node -> QuadTreeNode
    bi,          \* build(): number of particles already inserted
    inserted,    \* build(): the value each insert(&p) returned
    forces,      \* computeForces: the vector `forces`
    finished,    \* computeForces: iterations of the parallel loop that ran
    rk           \* the integrator's locals (see the integrator section)

vars == <<particles, entry, pc, theta, tree, bi, inserted, forces, finished, rk>>

-----------------------------------------------------------------------------
(* Bounds of the model *)

\* number of particles in a snapshot: 0..MaxN
MaxN == 3
\* particle coordinates are the integers 0..GridMax
GridMax == 2
\* deepest node the model builds; an insert that must subdivide a node at
\* this depth is a recursion that does not end (see insert)
MaxDepth == 3

RECURSIVE Pow2(_)
Pow2(k) == IF k = 0 THEN 1 ELSE 2 * Pow2(k - 1)

Scale == 10 * Pow2(MaxDepth)

\* particle positions of the force-evaluation snapshots: grid points
Positions == {<<x * Scale, y * Scale>> : x \in 0..GridMax, y \in 0..1}

\* in those snapshots the i-th particle has mass i
MassOf(i) == i

\* theta: 0 and the default 0.5f (BarnesHut.h:193)
Thetas == {<<0, 1>>, <<1, 2>>}

-----------------------------------------------------------------------------
(* Numbers and vectors *)

\* the one value that stands for every non-finite float (Inf, -Inf, NaN):
\* an integer no computation of the model reaches
NaN == 0 - Pow2(30)

IsNaN(a) == a = NaN

Abs(a) == IF a < 0 THEN -a ELSE a

Max(a, b) == IF a > b THEN a ELSE b

Min(a, b) == IF a < b THEN a ELSE b

\* a / b rounded to the nearest integer, ties to even (b # 0)
RoundDiv(a, b) ==
    LET n == IF b < 0 THEN -a ELSE a
        d == Abs(b)
        q == n \div d
        r == n % d
    IN  IF 2 * r < d THEN q
        ELSE IF 2 * r > d THEN q + 1
        ELSE IF q % 2 = 0 THEN q ELSE q + 1

Add(a, b) == IF IsNaN(a) \/ IsNaN(b) THEN NaN ELSE a + b

Sub(a, b) == IF IsNaN(a) \/ IsNaN(b) THEN NaN ELSE a - b

Mul(a, b) == IF IsNaN(a) \/ IsNaN(b) THEN NaN ELSE a * b

Div(a, b) == IF IsNaN(a) \/ IsNaN(b) \/ b = 0 THEN NaN ELSE RoundDiv(a, b)

VAdd(u, v) == <<Add(u[1], v[1]), Add(u[2], v[2])>>

VSub(u, v) == <<Sub(u[1], v[1]), Sub(u[2], v[2])>>

VMul(u, s) == <<Mul(u[1], s), Mul(u[2], s)>>

VDiv(u, s) == <<Div(u[1], s), Div(u[2], s)>>

Zero == <<0, 0>>

VFinite(u) == ~IsNaN(u[1]) /\ ~IsNaN(u[2])

-----------------------------------------------------------------------------
(* Particle *)

Particle(pos, vel, m, fx) ==
    [position |-> pos, velocity |-> vel, acceleration |-> Zero,
     mass |-> m, fixed |-> fx]

Indices(ps) == 1..Len(ps)

RECURSIVE SumOver(_, _)
SumOver(f, S) ==
    IF S = {} THEN 0
    ELSE LET x == CHOOSE y \in S : TRUE IN f[x] + SumOver(f, S \ {x})

-----------------------------------------------------------------------------
(* QuadTreeNode *)

MAX_PARTICLES == 1

NUM_CHILDREN == 4

Root == <<>>

Child(n, k) == Append(n, k)

Boundary(c, h) == [center |-> c, halfSize |-> h]

contains(b, point) ==
    /\ point[1] >= b.center[1] - b.halfSize
    /\ point[1] <= b.center[1] + b.halfSize
    /\ point[2] >= b.center[2] - b.halfSize
    /\ point[2] <= b.center[2] + b.halfSize

\* explicit QuadTreeNode(const Boundary& b) with the member initialisers
QuadTreeNode(b) ==
    [boundary |-> b, particles |-> <<>>, centerOfMass |-> Zero,
     totalMass |-> 0, isLeaf |-> TRUE]

\* the four quadrant offsets of subdivide, in the order children[0..3]
QuadrantOffset(k, h) ==
    CASE k = 1 -> <<h, -h>>
      [] k = 2 -> <<-h, -h>>
      [] k = 3 -> <<h, h>>
      [] k = 4 -> <<-h, h>>

\* float newHalfSize = boundary.halfSize * 0.5f
NewHalfSizeWhole(h) == h

NewHalfSize(h) == h \div 2

ChildBoundary(b, k) ==
    Boundary(VAdd(b.center, QuadrantOffset(k, NewHalfSize(b.halfSize))),
             NewHalfSize(b.halfSize))

Result(t, r, o) == [tree |-> t, ret |-> r, overflow |-> o]

RECURSIVE insert(_, _, _, _)
RECURSIVE subdivide(_, _, _)
RECURSIVE insertFirstChild(_, _, _, _, _)
RECURSIVE insertEveryChild(_, _, _, _, _)
RECURSIVE redistribute(_, _, _, _)

\* `for (auto& child : children) if (child->insert(p)) ...` from child k on
insertEveryChild(t, n, p, ps, k) ==
    IF k > NUM_CHILDREN THEN Result(t, FALSE, FALSE)
    ELSE LET r == insert(t, Child(n, k), p, ps)
         IN  IF r.overflow THEN r
             ELSE LET s == insertEveryChild(r.tree, n, p, ps, k + 1)
                  IN  IF s.overflow THEN s
                      ELSE Result(s.tree, r.ret \/ s.ret, FALSE)

\* `for (auto& child : children) if (child->insert(p)) ...` from child k on:
\* the first child that accepts p ends the loop
insertFirstChild(t, n, p, ps, k) ==
    IF k > NUM_CHILDREN THEN Result(t, FALSE, FALSE)
    ELSE LET r == insert(t, Child(n, k), p, ps)
         IN  IF r.overflow \/ r.ret THEN r
             ELSE insertFirstChild(r.tree, n, p, ps, k + 1)

\* the redistribution loop of subdivide over the node's particles
redistribute(t, n, held, ps) ==
    IF held = <<>> THEN Result(t, TRUE, FALSE)
    ELSE LET r == insertFirstChild(t, n, Head(held), ps, 1)
         IN  IF r.overflow THEN r
             ELSE redistribute(r.tree, n, Tail(held), ps)

subdivide(t, n, ps) ==
    LET kids == [m \in {Child(n, k) : k \in 1..NUM_CHILDREN} |->
                    QuadTreeNode(ChildBoundary(t[n].boundary, m[Len(m)]))]
        t1 == [m \in DOMAIN t \cup DOMAIN kids |->
                    IF m \in DOMAIN kids THEN kids[m] ELSE t[m]]
        t2 == [t1 EXCEPT ![n].isLeaf = FALSE]
        r  == redistribute(t2, n, t[n].particles, ps)
    IN  IF r.overflow THEN r
        ELSE Result([r.tree EXCEPT ![n].particles = <<>>], TRUE, FALSE)

\* bool insert(const Particle*) from `if (isLeaf)` on
insertUnchecked(t, n, p, ps) ==
    IF t[n].isLeaf THEN
        IF Len(t[n].particles) < MAX_PARTICLES
        THEN Result([t EXCEPT ![n].particles = Append(@, p)], TRUE, FALSE)
        ELSE IF Len(n) >= MaxDepth THEN Result(t, FALSE, TRUE)
        ELSE LET s == subdivide(t, n, ps)
             IN  IF s.overflow THEN s ELSE insert(s.tree, n, p, ps)
    ELSE insertFirstChild(t, n, p, ps, 1)

\* bool insert(const Particle*): a particle pointer is the particle's index
\* in the vector.  The recursion insert -> subdivide -> insert has no bound
\* in the code; the model follows it down to depth MaxDepth and reports a
\* deeper one as overflow = TRUE: the call does not return.
insert(t, n, p, ps) ==
    IF ~contains(t[n].boundary, ps[p].position) THEN Result(t, FALSE, FALSE)
    ELSE IF t[n].isLeaf THEN
        IF Len(t[n].particles) < MAX_PARTICLES
        THEN Result([t EXCEPT ![n].particles = Append(@, p)], TRUE, FALSE)
        ELSE IF Len(n) >= MaxDepth THEN Result(t, FALSE, TRUE)
        ELSE LET s == subdivide(t, n, ps)
             IN  IF s.overflow THEN s ELSE insert(s.tree, n, p, ps)
    ELSE insertFirstChild(t, n, p, ps, 1)


RECURSIVE leafMass(_, _)
\* the loop of updateCenterOfMass over a leaf's particles: totalMass
leafMass(held, ps) ==
    IF held = <<>> THEN 0
    ELSE Add(ps[Head(held)].mass, leafMass(Tail(held), ps))

RECURSIVE leafMoment(_, _)
\* the same loop: centerOfMass before the division
leafMoment(held, ps) ==
    IF held = <<>> THEN Zero
    ELSE VAdd(VMul(ps[Head(held)].position, ps[Head(held)].mass),
              leafMoment(Tail(held), ps))

RECURSIVE childMass(_, _, _)
\* the loop of updateCenterOfMass over children k..4: totalMass
childMass(t, n, k) ==
    IF k > NUM_CHILDREN THEN 0
    ELSE IF Child(n, k) \in DOMAIN t /\ t[Child(n, k)].totalMass > 0
         THEN t[Child(n, k)].totalMass + childMass(t, n, k + 1)
         ELSE childMass(t, n, k + 1)

RECURSIVE childMoment(_, _, _)
\* the same loop: centerOfMass before the division
childMoment(t, n, k) ==
    IF k > NUM_CHILDREN THEN Zero
    ELSE IF Child(n, k) \in DOMAIN t /\ t[Child(n, k)].totalMass > 0
         THEN VAdd(VMul(t[Child(n, k)].centerOfMass, t[Child(n, k)].totalMass),
                   childMoment(t, n, k + 1))
         ELSE childMoment(t, n, k + 1)

\* void updateCenterOfMass(): the fields of node n after the call.  The
\* function reads its children's totalMass and centerOfMass and calls
\* nothing else.
updateCenterOfMass(t, n, ps) ==
    IF t[n].isLeaf THEN
        IF t[n].particles = <<>>
        THEN [t EXCEPT ![n].totalMass = 0,
                       ![n].centerOfMass = t[n].boundary.center]
        ELSE [t EXCEPT ![n].totalMass = leafMass(t[n].particles, ps),
                       ![n].centerOfMass =
                            VDiv(leafMoment(t[n].particles, ps),
                                 leafMass(t[n].particles, ps))]
    ELSE
        LET m == childMass(t, n, 1)
        IN  [t EXCEPT ![n].totalMass = m,
                      ![n].centerOfMass =
                            IF m > 0 THEN VDiv(childMoment(t, n, 1), m)
                            ELSE childMoment(t, n, 1)]

-----------------------------------------------------------------------------
(* Forces *)

SOFTENING == 1

Term(r, mm) == <<r, mm>>

\* &particle == p : particles are compared by address
NotSameParticle(p, q) == p # q

SameParticle(p, q) == p = q

\* `s / distance < theta` with distance = sqrt(r.r + softening^2) > 0,
\* s >= 0 and theta = th[1] / th[2] >= 0, decided without the square root
UseAsSingleBody(s, r, th) ==
    LET soft == SOFTENING * Scale
        d2   == r[1] * r[1] + r[2] * r[2] + soft * soft
    IN  (s * th[2]) * (s * th[2]) < (th[1] * th[1]) * d2

RECURSIVE leafTerms(_, _, _)
\* the direct calculation over a leaf's particles (BarnesHut.h:137-144)
leafTerms(held, q, ps) ==
    IF held = <<>> THEN <<>>
    ELSE IF ~SameParticle(Head(held), q)
         THEN <<Term(VSub(ps[Head(held)].position, ps[q].position),
                     ps[q].mass * ps[Head(held)].mass)>>
              \o leafTerms(Tail(held), q, ps)
         ELSE leafTerms(Tail(held), q, ps)

RECURSIVE computeForce(_, _, _, _, _)
RECURSIVE childTerms(_, _, _, _, _, _)

\* the recursion of computeForce into children k..4
childTerms(t, n, q, ps, th, k) ==
    IF k > NUM_CHILDREN THEN <<>>
    ELSE IF Child(n, k) \in DOMAIN t
         THEN computeForce(t, Child(n, k), q, ps, th)
              \o childTerms(t, n, q, ps, th, k + 1)
         ELSE childTerms(t, n, q, ps, th, k + 1)

\* void computeForce(particle, force, theta, G, softening) const on node n:
\* the terms it adds to `force`, in order.  particles.front() of an empty
\* vector is compared with && size() == 1, which is false there.
computeForce(t, n, q, ps, th) ==
    IF \/ t[n].totalMass = 0
       \/ (Len(t[n].particles) = 1 /\ SameParticle(t[n].particles[1], q))
    THEN <<>>
    ELSE IF t[n].isLeaf THEN leafTerms(t[n].particles, q, ps)
    ELSE LET r == VSub(t[n].centerOfMass, ps[q].position)
         IN  IF UseAsSingleBody(t[n].boundary.halfSize * 2, r, th)
             THEN <<Term(r, ps[q].mass * t[n].totalMass)>>
             ELSE childTerms(t, n, q, ps, th, 1)

RECURSIVE directTerms(_, _, _)
\* the j loop of NBodySimulation::computeForces for forces[i], from j on
directTerms(i, j, ps) ==
    IF j > Len(ps) THEN <<>>
    ELSE IF i # j
         THEN <<Term(VSub(ps[j].position, ps[i].position),
                     ps[i].mass * ps[j].mass)>>
              \o directTerms(i, j + 1, ps)
         ELSE directTerms(i, j + 1, ps)

\* the root boundary BarnesHutForceCalculator::computeForces builds:
\* center = (min + max) * 0.5, size = max(width, height) * 0.6
MinOf(S) == CHOOSE a \in S : \A b \in S : a <= b

MaxOf(S) == CHOOSE a \in S : \A b \in S : a >= b

RootBoundary(ps) ==
    LET xs == {ps[i].position[1] : i \in Indices(ps)}
        ys == {ps[i].position[2] : i \in Indices(ps)}
        mn == <<MinOf(xs), MinOf(ys)>>
        mx == <<MaxOf(xs), MaxOf(ys)>>
    IN  Boundary(<<(mn[1] + mx[1]) \div 2, (mn[2] + mx[2]) \div 2>>,
                 (Max(mx[1] - mn[1], mx[2] - mn[2]) * 6) \div 10)

-----------------------------------------------------------------------------
(* Force evaluation: BarnesHutForceCalculator::computeForces ("bh"),        *)
(* NBodySimulation::computeForces ("direct") and QuadTreeNode::build on a   *)
(* root the caller constructed ("build")                                    *)

NoTree == [m \in {} |-> 0]

NoRK == [kind |-> "none"]

Snapshots ==
    UNION {{[i \in 1..n |-> Particle(pos[i], Zero, MassOf(i), FALSE)] :
                pos \in [1..n -> Positions]} : n \in 0..MaxN}

\* boundaries a caller of build may give the root: the square of the whole
\* grid, and a square around the origin that leaves the far points out
BuildBoundaries ==
    {Boundary(<<(GridMax * Scale) \div 2, (GridMax * Scale) \div 2>>,
              (GridMax * Scale) \div 2),
     Boundary(<<0, 0>>, Scale)}

\* std::vector<sf::Vector2f> forces(particles.size(), sf::Vector2f(0, 0))
ZeroForces(ps) == [i \in Indices(ps) |-> <<>>]

RECURSIVE buildFrom(_, _, _)
\* the loop of build from particle k on, run to its end
buildFrom(t, ps, k) ==
    IF k > Len(ps) THEN Result(t, TRUE, FALSE)
    ELSE LET r == insert(t, Root, k, ps)
         IN  IF r.overflow THEN r ELSE buildFrom(r.tree, ps, k + 1)

\* void build(particles) on the tree t, when it returns
build(t, ps) == updateCenterOfMass(buildFrom(t, ps, 1).tree, Root, ps)

\* BarnesHutForceCalculator::computeForces run by one thread, when it
\* returns: the value of `forces`
computeForces(ps, th) ==
    IF ps = <<>> THEN <<>>
    ELSE LET t == build([m \in {Root} |-> QuadTreeNode(RootBoundary(ps))], ps)
         IN  [i \in Indices(ps) |-> computeForce(t, Root, i, ps, th)]

\* NBodySimulation::computeForces run by one thread
directForces(ps) == [i \in Indices(ps) |-> directTerms(i, 1, ps)]

Init ==
    /\ particles \in Snapshots
    /\ entry \in {"bh", "direct", "build"}
    /\ theta \in IF entry = "bh" THEN Thetas ELSE {<<1, 2>>}
    /\ pc = "start"
    /\ tree = NoTree
    /\ bi = 0
    /\ inserted = <<>>
    /\ forces = <<>>
    /\ finished = {}
    /\ rk = NoRK

\* BarnesHut.h:200: an empty input returns {} at once
BHEmpty ==
    /\ entry = "bh" /\ pc = "start"
    /\ particles = <<>>
    /\ pc' = "done"
    /\ forces' = <<>>
    /\ UNCHANGED <<particles, entry, theta, tree, bi, inserted, finished, rk>>

\* BarnesHut.h:202-217: the bounds and the root node
BHRoot ==
    /\ entry = "bh" /\ pc = "start"
    /\ particles # <<>>
    /\ tree' = [m \in {Root} |-> QuadTreeNode(RootBoundary(particles))]
    /\ pc' = "build"
    /\ UNCHANGED <<particles, entry, theta, bi, inserted, forces, finished, rk>>

\* a caller constructs a root and calls build on it
BuildRoot ==
    /\ entry = "build" /\ pc = "start"
    /\ \E b \in BuildBoundaries : tree' = [m \in {Root} |-> QuadTreeNode(b)]
    /\ pc' = "build"
    /\ UNCHANGED <<particles, entry, theta, bi, inserted, forces, finished, rk>>

\* one iteration of the loop of build: insert(&p), its result dropped
BuildInsert ==
    /\ pc = "build"
    /\ bi < Len(particles)
    /\ LET r == insert(tree, Root, bi + 1, particles)
       IN  IF r.overflow
           THEN /\ pc' = "overflow"
                /\ UNCHANGED <<tree, bi, inserted>>
           ELSE /\ tree' = r.tree
                /\ bi' = bi + 1
                /\ inserted' = Append(inserted, r.ret)
                /\ pc' = pc
    /\ UNCHANGED <<particles, entry, theta, forces, finished, rk>>

\* the end of build: updateCenterOfMass() on the root; computeForces then
\* creates `forces` (BarnesHut.h:221) and enters the parallel loop
BuildFinish ==
    /\ pc = "build"
    /\ bi = Len(particles)
    /\ tree' = updateCenterOfMass(tree, Root, particles)
    /\ IF entry = "bh"
       THEN pc' = "parallel" /\ forces' = ZeroForces(particles)
       ELSE pc' = "done" /\ forces' = forces
    /\ UNCHANGED <<particles, entry, theta, bi, inserted, finished, rk>>

\* the element of `forces` that iteration i accumulates into: forces[i]
\* (BarnesHut.h:225; main.cpp:245, i = &force - &forces[0])
SlotShared(i) == 1

Slot(i) == i

\* one iteration of `#pragma omp parallel for`: iterations run in any order
BHWorker(i) ==
    /\ entry = "bh" /\ pc = "parallel"
    /\ i \in Indices(particles) \ finished
    /\ forces' = [forces EXCEPT ![Slot(i)] =
                        @ \o computeForce(tree, Root, i, particles, theta)]
    /\ finished' = finished \cup {i}
    /\ UNCHANGED <<particles, entry, pc, theta, tree, bi, inserted, rk>>

\* main.cpp:239: forces(particles.size(), 0)
DirectStart ==
    /\ entry = "direct" /\ pc = "start"
    /\ forces' = ZeroForces(particles)
    /\ pc' = "parallel"
    /\ UNCHANGED <<particles, entry, theta, tree, bi, inserted, finished, rk>>

\* one element of std::for_each(par_unseq, ...): main.cpp:244-255
DirectWorker(i) ==
    /\ entry = "direct" /\ pc = "parallel"
    /\ i \in Indices(particles) \ finished
    /\ forces' = [forces EXCEPT ![Slot(i)] = @ \o directTerms(i, 1, particles)]
    /\ finished' = finished \cup {i}
    /\ UNCHANGED <<particles, entry, pc, theta, tree, bi, inserted, rk>>

\* `return forces;` once every iteration has run
Return ==
    /\ pc = "parallel"
    /\ finished = Indices(particles)
    /\ pc' = "done"
    /\ UNCHANGED <<particles, entry, theta, tree, bi, inserted, forces, finished, rk>>

Next ==
    \/ BHEmpty
    \/ BHRoot
    \/ BuildRoot
    \/ BuildInsert
    \/ BuildFinish
    \/ \E i \in 1..MaxN : BHWorker(i)
    \/ DirectStart
    \/ \E i \in 1..MaxN : DirectWorker(i)
    \/ Return

Spec == Init /\ [][Next]_vars

Coincident(ps) ==
    \E i, j \in Indices(ps) : i # j /\ ps[i].position = ps[j].position

\* MaxDepth is deep enough: only particles at one position reach it
DepthSuffices == pc = "overflow" => Coincident(particles)


-----------------------------------------------------------------------------
(* Properties of the tree and of force evaluation *)

\* build has returned on a tree
BuildReturned == pc \in {"parallel", "done"} /\ Root \in DOMAIN tree

MassSum(ps) == SumOver([i \in Indices(ps) |-> ps[i].mass], Indices(ps))

AllInside(b, ps) == \A i \in Indices(ps) : contains(b, ps[i].position)

RECURSIVE SeqToBag(_)
SeqToBag(sq) ==
    IF sq = <<>> THEN EmptyBag ELSE SetToBag({Head(sq)}) (+) SeqToBag(Tail(sq))

\* C1: after build on a fresh root whose boundary contains every particle,
\* the root's totalMass is the sum of the masses of all particles.
C1_RootMassIsSum ==
    (BuildReturned /\ AllInside(tree[Root].boundary, particles))
        => tree[Root].totalMass = MassSum(particles)

\* C2: with theta = 0 computeForces gives every particle exactly the terms
\* of the direct pairwise sum: one term for each other particle.
C2_ThetaZeroIsDirect ==
    (entry = "bh" /\ pc = "done" /\ theta[1] = 0)
        => \A i \in Indices(particles) :
              SeqToBag(forces[i]) = SeqToBag(directTerms(i, 1, particles))

Swap(sq, i, j) ==
    [k \in DOMAIN sq |-> IF k = i THEN sq[j] ELSE IF k = j THEN sq[i] ELSE sq[k]]

\* what computeForces guarantees about `forces` once it has returned: one
\* entry per input particle (none, and no tree, for an empty input), entry i
\* is what the traversal for particle i accumulated, and exchanging two
\* input particles exchanges their two entries
IndexAligned ==
    /\ DOMAIN forces = Indices(particles)
    /\ particles = <<>> => (forces = <<>> /\ tree = NoTree)
    /\ \A i \in Indices(particles) :
          forces[i] = computeForce(tree, Root, i, particles, theta)
    /\ \A i, j \in Indices(particles) :
          computeForces(Swap(particles, i, j), theta) = Swap(forces, i, j)

\* the calls that return do so with index-aligned forces
AlignedOnReturn == (entry = "bh" /\ pc = "done") => IndexAligned

\* C5: for every snapshot computeForces returns a sequence with one entry
\* per input particle, entry i being the force accumulated for particle i:
\* no call ends otherwise.
C5_ReturnsAlignedForces ==
    (entry = "bh" /\ pc \in {"done", "overflow"}) => (pc = "done" /\ IndexAligned)

\* the term a particle paired with itself would add
SelfTerm(q, ps) == Term(Zero, ps[q].mass * ps[q].mass)

InSeq(x, sq) == \E k \in DOMAIN sq : sq[k] = x

\* C6: in a built tree the leaf that holds the query particle adds nothing
\* to the force, and no returned force holds a term that pairs a particle
\* with itself.
C6_NoSelfForce ==
    /\ BuildReturned =>
          \A n \in DOMAIN tree : \A q \in Indices(particles) :
              (tree[n].isLeaf /\ InSeq(q, tree[n].particles))
                  => computeForce(tree, n, q, particles, theta) = <<>>
    /\ pc \in {"parallel", "done"} =>
          \A q \in DOMAIN forces : ~InSeq(SelfTerm(q, particles), forces[q])

\* the query particle's own leaf was visited with a mass: the self test decided
C6_Witness ==
    /\ entry = "bh" /\ pc = "done" /\ Root \in DOMAIN tree
    /\ tree[Root].isLeaf /\ tree[Root].particles = <<1>>
    /\ tree[Root].totalMass > 0
    /\ forces = <<<<>>>>

\* C7: force evaluation runs to completion: no insert recurses without end.
C7_BuildTerminates == pc # "overflow"

\* C8: the parallel loop starts on a tree that build has finished, no
\* iteration writes the tree or a particle, iteration i writes forces[i] and
\* nothing else, and the forces returned are those of a single thread.
C8_ReadOnlyTraversal ==
    /\ [](pc = "parallel" /\ entry = "bh"
            => /\ bi = Len(particles)
               /\ tree = updateCenterOfMass(tree, Root, particles))
    /\ [][pc = "parallel"
            => /\ tree' = tree
               /\ particles' = particles
               /\ \A i \in DOMAIN forces :
                     forces'[i] # forces[i] => finished' = finished \cup {i}]_vars
    /\ [](pc = "done" /\ entry = "bh" => forces = computeForces(particles, theta))
    /\ [](pc = "done" /\ entry = "direct" => forces = directForces(particles))

\* two iterations have run, in the order opposite to the loop's
C8_Witness ==
    /\ pc = "parallel" /\ entry = "bh" /\ Len(particles) = 3
    /\ ~tree[Root].isLeaf
    /\ finished = {2, 3}


\* the point is inside the boundary and on none of its four edges
strictlyContains(b, point) ==
    /\ point[1] > b.center[1] - b.halfSize
    /\ point[1] < b.center[1] + b.halfSize
    /\ point[2] > b.center[2] - b.halfSize
    /\ point[2] < b.center[2] + b.halfSize

\* the root of computeForces exists
BHRootBuilt == entry = "bh" /\ Root \in DOMAIN tree

\* what the root boundary of computeForces does give: every particle is
\* inside it, edges included, every insert at the root that returns returns
\* true, and the particles are off the edges when they are not all at one
\* position
RootContains ==
    BHRootBuilt =>
        /\ AllInside(tree[Root].boundary, particles)
        /\ \A k \in DOMAIN inserted : inserted[k]
        /\ tree[Root].boundary.halfSize > 0 =>
              \A i \in Indices(particles) :
                  strictlyContains(tree[Root].boundary, particles[i].position)

\* C11: the root boundary computeForces builds for a non-empty snapshot has
\* every particle position strictly inside it, none on an edge, and every
\* insert at the root returns true.
C11_RootStrictlyContains ==
    BHRootBuilt =>
        /\ \A i \in Indices(particles) :
              strictlyContains(tree[Root].boundary, particles[i].position)
        /\ \A k \in DOMAIN inserted : inserted[k]


Children(n) == {Child(n, k) : k \in 1..NUM_CHILDREN}

\* the children of n have half its halfSize, and their centers are the four
\* diagonal offsets of that length from its center
AreQuadrants(t, n) ==
    LET b == t[n].boundary
        h == t[Child(n, 1)].boundary.halfSize
    IN  /\ \A c \in Children(n) : 2 * t[c].boundary.halfSize = b.halfSize
        /\ {VSub(t[c].boundary.center, b.center) : c \in Children(n)}
              = {<<h, h>>, <<h, -h>>, <<-h, h>>, <<-h, -h>>}
        /\ h > 0

\* every node is a leaf of at most one particle and no children, or an
\* internal node of no particle and four quadrant children; every node but
\* the root is the child of an internal node
WellFormed(t) ==
    \A n \in DOMAIN t :
        /\ IF t[n].isLeaf
           THEN /\ Len(t[n].particles) <= 1
                /\ Children(n) \cap DOMAIN t = {}
           ELSE /\ t[n].particles = <<>>
                /\ Children(n) \subseteq DOMAIN t
                /\ AreQuadrants(t, n)
        /\ n # Root =>
              LET m == SubSeq(n, 1, Len(n) - 1)
              IN  m \in DOMAIN t /\ ~t[m].isLeaf

\* C12: after any sequence of inserts every node of the tree is a leaf with
\* 0 or 1 particle and no children or an internal node with no particle and
\* the four quadrants of its boundary as children, and an internal node
\* stays internal.
C12_LeafOrFourQuadrants ==
    /\ [](Root \in DOMAIN tree => WellFormed(tree))
    /\ [][\A n \in DOMAIN tree :
              ~tree[n].isLeaf => (n \in DOMAIN tree' /\ ~tree'[n].isLeaf)]_vars

\* three inserts have returned and left an internal node below the root,
\* one empty leaf and one leaf with a particle
C12_Witness ==
    /\ pc = "build" /\ bi = 3
    /\ \E n \in DOMAIN tree : n # Root /\ ~tree[n].isLeaf
    /\ \E n \in DOMAIN tree : tree[n].isLeaf /\ tree[n].particles = <<>>
    /\ \E n \in DOMAIN tree : tree[n].isLeaf /\ Len(tree[n].particles) = 1


\* the places of the tree that refer to particle p: node and index in the
\* node's particles
References(t, p) ==
    {<<n, k>> \in (DOMAIN t) \X (1..MaxN) :
        k \in DOMAIN t[n].particles /\ t[n].particles[k] = p}

\* the children of m, among its first NUM_CHILDREN, that contain the point
Containing(t, m, point) ==
    {k \in 1..NUM_CHILDREN : contains(t[Child(m, k)].boundary, point)}

\* on the way from the root down to node n, each step goes into the first
\* child, in the order children[0..3], whose boundary contains the point
FirstMatch(t, n, point) ==
    \A d \in 1..Len(n) :
        n[d] = MinOf(Containing(t, SubSeq(n, 1, d - 1), point))

NextOutOfBounds ==
    /\ pc = "build" /\ bi < Len(particles)
    /\ ~contains(tree[Root].boundary, particles[bi + 1].position)

\* C14: insert of a particle outside a node's boundary returns false and
\* leaves the whole tree as it was; build goes on to the next particle, so
\* the tree ends up referring to the particles inside the root boundary and
\* to no other.
C14_OutOfBoundsDropped ==
    /\ [](Root \in DOMAIN tree =>
            \A n \in DOMAIN tree : \A p \in Indices(particles) :
                ~contains(tree[n].boundary, particles[p].position)
                    => insert(tree, n, p, particles) = Result(tree, FALSE, FALSE))
    /\ [][NextOutOfBounds
            => /\ tree' = tree
               /\ inserted' = Append(inserted, FALSE)
               /\ bi' = bi + 1
               /\ pc' = "build"]_vars
    /\ [](Root \in DOMAIN tree =>
            \A p \in DOMAIN inserted :
                /\ inserted[p] = contains(tree[Root].boundary, particles[p].position)
                /\ inserted[p] = (References(tree, p) # {}))

\* build has returned: the second particle was outside the root and dropped,
\* the first and the third are in the tree
C14_Witness ==
    /\ entry = "build" /\ pc = "done"
    /\ inserted = <<TRUE, FALSE, TRUE>>
    /\ References(tree, 2) = {}
    /\ References(tree, 1) # {} /\ References(tree, 3) # {}


-----------------------------------------------------------------------------
(* RungeKuttaIntegrator::integrate ("rk"): one call on a store of two       *)
(* particles.  forceFunc is a parameter of integrate: each of its four      *)
(* calls returns some force per particle, any of ForceVals ("any"), or a    *)
(* pair of equal and opposite forces ("pairwise").  Floats are the          *)
(* integers here; products and sums of them are exact, quotients round.     *)

RKMasses == {0, 1, 3}

RKVelocities == {Zero, <<1, -1>>}

DTs == {2, 4}

ForceVals == {<<3, 0>>, <<-1, 2>>}

VNeg(u) == <<Sub(0, u[1]), Sub(0, u[2])>>

RKStores ==
    {<<Particle(<<0, 0>>, v1, m1, f1), Particle(<<4, 0>>, v2, m2, f2)>> :
        v1 \in RKVelocities, v2 \in RKVelocities,
        m1 \in RKMasses, m2 \in RKMasses,
        f1 \in BOOLEAN, f2 \in BOOLEAN}

\* what one call forceFunc(tempParticles) may return
ForceFields(kind, ps) ==
    IF kind = "pairwise"
    THEN {<<f, VNeg(f)>> : f \in ForceVals \cup {Zero}}
    ELSE [Indices(ps) -> ForceVals]

\* State initial (main.cpp:112-116)
InitialState(ps) ==
    [positions  |-> [i \in Indices(ps) |-> ps[i].position],
     velocities |-> [i \in Indices(ps) |-> ps[i].velocity]]

\* k1 before its evaluation (main.cpp:121-122)
ZeroDerivative(ps) ==
    [dpos |-> [i \in Indices(ps) |-> Zero], dvel |-> [i \in Indices(ps) |-> Zero]]

\* the dt argument of the j-th call of evaluate (main.cpp:124-127)
StageDtFull(j, dt) == IF j = 1 THEN 0 ELSE dt

StageDt(j, dt) ==
    CASE j = 1 -> 0
      [] j \in {2, 3} -> Div(dt, 2)
      [] j = 4 -> dt

\* evaluate, main.cpp:81-93: tempParticles, the copy of the store displaced
\* by d * dt, on which forceFunc is called
tempParticlesOf(initial, dt, d, ps) ==
    [i \in Indices(ps) |->
        [ps[i] EXCEPT
            !.position = VAdd(initial.positions[i], VMul(d.dpos[i], dt)),
            !.velocity = VAdd(initial.velocities[i], VMul(d.dvel[i], dt))]]

\* evaluate, main.cpp:100-103: output.dvel
dvelByFirstMass(fs, temp) == [i \in DOMAIN fs |-> VDiv(fs[i], temp[1].mass)]

dvelOf(fs, temp) == [i \in DOMAIN fs |-> VDiv(fs[i], temp[i].mass)]

\* evaluate, main.cpp:95-105: the Derivative it returns
outputOf(temp, fs) ==
    [dpos |-> [i \in DOMAIN temp |-> temp[i].velocity],
     dvel |-> dvelOf(fs, temp)]

\* main.cpp:131: if (!particles[i].fixed)
MovesAlways(p) == TRUE

Moves(p) == ~p.fixed

\* (k1 + 2.0f * k2 + 2.0f * k3 + k4) / 6.0f  (main.cpp:132-133)
Weighted(a, b, c, d) ==
    VDiv(VAdd(VAdd(VAdd(a, VMul(b, 2)), VMul(c, 2)), d), 6)

\* the update loop of integrate, main.cpp:130-139
updated(ps, k, dt) ==
    [i \in Indices(ps) |->
        IF Moves(ps[i])
        THEN LET dxdt == Weighted(k[1].dpos[i], k[2].dpos[i], k[3].dpos[i], k[4].dpos[i])
                 dvdt == Weighted(k[1].dvel[i], k[2].dvel[i], k[3].dvel[i], k[4].dvel[i])
             IN  [ps[i] EXCEPT !.position = VAdd(@, VMul(dxdt, dt)),
                               !.velocity = VAdd(@, VMul(dvdt, dt)),
                               !.acceleration = dvdt]
        ELSE ps[i]]

InitRK ==
    /\ particles \in RKStores
    /\ entry = "rk"
    /\ pc = "call"
    /\ theta = <<1, 2>>
    /\ tree = NoTree
    /\ bi = 0
    /\ inserted = <<>>
    /\ forces = <<>>
    /\ finished = {}
    /\ \E dt \in DTs, kind \in {"any", "pairwise"} :
          rk = [dt |-> dt, kind |-> kind, old |-> particles,
                initial |-> InitialState(particles), k |-> <<>>, F |-> <<>>,
                temp |-> <<>>]

\* main.cpp:112-122: the locals of integrate
IntegrateBegin ==
    /\ entry = "rk" /\ pc = "call"
    /\ rk' = [rk EXCEPT !.initial = InitialState(particles), !.old = particles]
    /\ pc' = "evaluate"
    /\ UNCHANGED <<particles, entry, theta, tree, bi, inserted, forces, finished>>

\* main.cpp:124-127: the next of the four calls of evaluate
Evaluate ==
    /\ entry = "rk" /\ pc = "evaluate"
    /\ LET j  == Len(rk.k) + 1
           d  == IF j = 1 THEN ZeroDerivative(particles) ELSE rk.k[j - 1]
           tp == tempParticlesOf(rk.initial, StageDt(j, rk.dt), d, particles)
       IN  /\ \E fs \in ForceFields(rk.kind, tp) :
                 rk' = [rk EXCEPT !.k = Append(@, outputOf(tp, fs)),
                                  !.F = Append(@, fs),
                                  !.temp = Append(@, tp)]
           /\ pc' = IF j = 4 THEN "update" ELSE pc
    /\ UNCHANGED <<particles, entry, theta, tree, bi, inserted, forces, finished>>

\* main.cpp:129-139: the update of the live store; integrate returns
Update ==
    /\ entry = "rk" /\ pc = "update"
    /\ particles' = updated(particles, rk.k, rk.dt)
    /\ pc' = "done"
    /\ UNCHANGED <<entry, theta, tree, bi, inserted, forces, finished, rk>>

NextRK == IntegrateBegin \/ Evaluate \/ Update

SpecRK == InitRK /\ [][NextRK]_vars


-----------------------------------------------------------------------------
(* Properties of integrate *)

\* C3: after integrate every fixed particle has the position, velocity and
\* acceleration it had before the call.
C3_FixedUnchanged ==
    (entry = "rk" /\ pc = "done")
        => \A i \in Indices(particles) :
              rk.old[i].fixed => particles[i] = rk.old[i]

\* a fixed particle on which every evaluation returned a non-zero force,
\* next to one that moved
C3_Witness ==
    /\ entry = "rk" /\ pc = "done"
    /\ particles[1].fixed /\ particles[1].velocity # Zero
    /\ \A j \in 1..4 : rk.F[j][1] # Zero
    /\ ~particles[2].fixed /\ particles[2].position # rk.old[2].position

\* the state the j-th force evaluation is specified to run on: the initial
\* state displaced by the previous stage's derivative times 0, dt/2, dt/2, dt
DisplacedBy(j, i) ==
    IF j = 1 THEN <<rk.initial.positions[i], rk.initial.velocities[i]>>
    ELSE LET h == IF j = 4 THEN rk.dt ELSE Div(rk.dt, 2)
         IN  <<VAdd(rk.initial.positions[i], VMul(rk.k[j - 1].dpos[i], h)),
               VAdd(rk.initial.velocities[i], VMul(rk.k[j - 1].dvel[i], h))>>

\* C4: the four force evaluations run on temporary snapshots: the first
\* equals the live state, the next three are the initial state displaced by
\* the previous stage's derivative times dt/2, dt/2, dt; and the live store
\* is not written before the fourth evaluation has returned.
C4_SnapshotsOnly ==
    /\ [](entry = "rk" =>
            \A j \in DOMAIN rk.temp : \A i \in Indices(particles) :
                /\ <<rk.temp[j][i].position, rk.temp[j][i].velocity>> = DisplacedBy(j, i)
                /\ j = 1 => /\ rk.temp[j][i].position = rk.old[i].position
                            /\ rk.temp[j][i].velocity = rk.old[i].velocity)
    /\ [][(entry = "rk" /\ pc \in {"call", "evaluate"}) => particles' = particles]_vars
    /\ [][(entry = "rk" /\ particles' # particles) => Len(rk.k) = 4]_vars

\* all four evaluations ran, on snapshots that differ from the live store,
\* and the store was then updated
C4_Witness ==
    /\ entry = "rk" /\ pc = "done"
    /\ Len(rk.temp) = 4
    /\ rk.temp[2][1].position # rk.old[1].position
    /\ rk.temp[4][1].position # rk.temp[2][1].position
    /\ particles # rk.old

FiniteParticle(p) ==
    VFinite(p.position) /\ VFinite(p.velocity) /\ VFinite(p.acceleration)

\* C9: with a particle of mass <= 0 in the store integrate fails fast: it
\* evaluates no derivative (no force is divided by that mass) and no
\* non-finite value reaches a position or velocity.
C9_FailsFastOnBadMass ==
    (entry = "rk" /\ \E i \in Indices(particles) : particles[i].mass <= 0)
        => /\ rk.k = <<>>
           /\ \A i \in Indices(particles) : FiniteParticle(particles[i])

\* total momentum, sum of mass * velocity
Momentum(ps) ==
    LET mv(i) == VMul(ps[i].velocity, ps[i].mass)
    IN  IF ps = <<>> THEN Zero
        ELSE IF Len(ps) = 1 THEN mv(1)
        ELSE VAdd(mv(1), mv(2))

ClosedSystem ==
    /\ entry = "rk" /\ rk.kind = "pairwise"
    /\ \A i \in Indices(particles) : ~particles[i].fixed /\ particles[i].mass > 0

\* C10 as stated: total momentum after integrate is the same as before.
C10_MomentumSame ==
    (ClosedSystem /\ pc = "done") => Momentum(particles) = Momentum(rk.old)

Divides(b, a) == b # 0 /\ a % b = 0

VDivides(b, u) == Divides(b, u[1]) /\ Divides(b, u[2])

\* no quotient of the step was rounded: force / mass in the four
\* evaluations, and the weighted sum / 6
NoRounding ==
    /\ \A j \in 1..4 : \A i \in Indices(particles) :
          VDivides(particles[i].mass, rk.F[j][i])
    /\ \A i \in Indices(particles) :
          VDivides(6, VAdd(VAdd(VAdd(rk.k[1].dvel[i], VMul(rk.k[2].dvel[i], 2)),
                                VMul(rk.k[3].dvel[i], 2)), rk.k[4].dvel[i]))

\* C10 amended: total momentum after integrate is the same as before when
\* no operation of the step rounded.
C10_MomentumSameIfExact ==
    (ClosedSystem /\ pc = "done" /\ NoRounding)
        => Momentum(particles) = Momentum(rk.old)

\* different masses, forces that changed both velocities, nothing rounded
C10_Witness ==
    /\ ClosedSystem /\ pc = "done" /\ NoRounding
    /\ particles[1].mass # particles[2].mass
    /\ particles[1].velocity # rk.old[1].velocity
    /\ particles[2].velocity # rk.old[2].velocity

\* C15: in each of the four snapshots integrate hands to the force
\* function, a fixed particle has the position and the velocity it has in
\* the live store.
C15_FixedSameInSnapshots ==
    entry = "rk" =>
        \A j \in DOMAIN rk.temp : \A i \in Indices(rk.old) :
            rk.old[i].fixed =>
                /\ rk.temp[j][i].position = rk.old[i].position
                /\ rk.temp[j][i].velocity = rk.old[i].velocity

\* what does hold: the first snapshot, taken with dt = 0 on the zero
\* derivative, is the live store
FirstSnapshotIsStore ==
    (entry = "rk" /\ Len(rk.temp) >= 1) =>
        \A i \in Indices(rk.old) :
            /\ rk.temp[1][i].position = rk.old[i].position
            /\ rk.temp[1][i].velocity = rk.old[i].velocity

=============================================================================
